---- MODULE Spec2Model ----
(***************************************************************************)
(* A model of the User CRUD service: the Mongoose schema of                *)
(* src/models/User.js, the five handlers of                                *)
(* src/controllers/userController.js, and the storage operations they      *)
(* call (document insert with unique indexes on _id and email,             *)
(* findOneAndUpdate with update validators, findOneAndDelete).             *)
(*                                                                         *)
(* Strings are sequences of one-character strings, so that trimming,       *)
(* lowercasing and the email pattern are computed, not assumed.            *)
(***************************************************************************)
EXTENDS Integers, Sequences, FiniteSets, TLC

(***************************************************************************)
(* Bounds of the model.                                                    *)
(***************************************************************************)
\* The ObjectIds that exist are 1..MaxIds.
MaxIds == 2
\* The storage clock reads 0..MaxClock.
MaxClock == 1
\* Requests in flight at once in the concurrent-create specification.
MaxInflight == 2
\* Requests that change the collection, in one behaviour of Spec.
MaxWrites == 3

(***************************************************************************)
(* JSON values of a request body.                                          *)
(***************************************************************************)
Undefined == [t |-> "undefined"]
Str(s) == [t |-> "string", s |-> s]
Num(n) == [t |-> "number", n |-> n]
Bool(b) == [t |-> "boolean", b |-> b]
\* the name of a path, as the operand of an update operator
Path(p) == [t |-> "path", p |-> p]

(***************************************************************************)
(* Characters and the String setters of the schema.                        *)
(***************************************************************************)
UpperChars == <<"A","B","C","D","E","F","G","H","I","J","K","L","M",
                "N","O","P","Q","R","S","T","U","V","W","X","Y","Z">>
LowerChars == <<"a","b","c","d","e","f","g","h","i","j","k","l","m",
                "n","o","p","q","r","s","t","u","v","w","x","y","z">>
Digits == {"0","1","2","3","4","5","6","7","8","9"}
Whitespace == {" "}

Range(f) == {f[i] : i \in DOMAIN f}

\* \w of a JavaScript regular expression: [A-Za-z0-9_]
IsWordChar(c) == c \in Range(UpperChars) \cup Range(LowerChars) \cup Digits \cup {"_"}

LowerChar(c) ==
    IF \E i \in DOMAIN UpperChars : UpperChars[i] = c
    THEN LowerChars[CHOOSE i \in DOMAIN UpperChars : UpperChars[i] = c]
    ELSE c

\* lowercase: true
toLowerCase(s) == [i \in DOMAIN s |-> LowerChar(s[i])]

RECURSIVE trimStart(_)
trimStart(s) ==
    IF s # <<>> /\ Head(s) \in Whitespace THEN trimStart(Tail(s)) ELSE s

RECURSIVE trimEnd(_)
trimEnd(s) ==
    IF s # <<>> /\ s[Len(s)] \in Whitespace
    THEN trimEnd(SubSeq(s, 1, Len(s) - 1))
    ELSE s

\* trim: true
trim(s) == trimEnd(trimStart(s))

(***************************************************************************)
(* The email pattern /^\w+([.-]?\w+)*@\w+([.-]?\w+)*(\.\w{2,3})+$/.       *)
(***************************************************************************)
IsSeparator(c) == c \in {".", "-"}

\* \w+([.-]?\w+)* : word characters with single separators between them
MatchesWords(s) ==
    /\ s # <<>>
    /\ IsWordChar(s[1])
    /\ IsWordChar(s[Len(s)])
    /\ \A i \in DOMAIN s : IsWordChar(s[i]) \/ IsSeparator(s[i])
    /\ \A i \in 1..(Len(s) - 1) : ~(IsSeparator(s[i]) /\ IsSeparator(s[i + 1]))

\* (\.\w{2,3})+ : one or more groups of a dot and two or three word characters
RECURSIVE MatchesTldGroups(_)
MatchesTldGroups(s) ==
    /\ s # <<>>
    /\ s[1] = "."
    /\ \E n \in {2, 3} :
          /\ Len(s) >= 1 + n
          /\ \A i \in 2..(1 + n) : IsWordChar(s[i])
          /\ \/ Len(s) = 1 + n
             \/ MatchesTldGroups(SubSeq(s, 2 + n, Len(s)))

MatchesEmail(s) ==
    \E at \in DOMAIN s :
        /\ s[at] = "@"
        /\ MatchesWords(SubSeq(s, 1, at - 1))
        /\ \E k \in (at + 1)..(Len(s) - 1) :
              /\ MatchesWords(SubSeq(s, at + 1, k))
              /\ MatchesTldGroups(SubSeq(s, k + 1, Len(s)))

(***************************************************************************)
(* Schema casting (src/models/User.js).  A path that is not in the body is *)
(* Undefined.  A value that cannot be cast is kept as a CastError.         *)
(***************************************************************************)
CastError == [t |-> "CastError"]

DigitChars == <<"0","1","2","3","4","5","6","7","8","9">>

RECURSIVE parseDecimal(_)
parseDecimal(s) ==
    IF s = <<>> THEN 0
    ELSE 10 * parseDecimal(SubSeq(s, 1, Len(s) - 1))
         + (CHOOSE i \in DOMAIN DigitChars : DigitChars[i] = s[Len(s)]) - 1

\* type: String, trim: true
castName(v) == IF v.t = "string" THEN Str(trim(v.s)) ELSE v

\* type: String, lowercase: true, trim: true
castEmail(v) == IF v.t = "string" THEN Str(toLowerCase(trim(v.s))) ELSE v

\* type: Number; a string of decimal digits is a number, any other string
\* is not
castAge(v) ==
    IF v.t = "string"
    THEN IF v.s # <<>> /\ \A i \in DOMAIN v.s : v.s[i] \in Digits
         THEN Num(parseDecimal(v.s))
         ELSE CastError
    ELSE v

\* type: Boolean
castIsActive(v) == v

\* The route parameter and a body's _id: Num(i) stands for the 24-digit
\* hexadecimal string of ObjectId i, any other value is no ObjectId.
ObjectIds == 1..MaxIds
castObjectId(v) == IF v.t = "number" /\ v.n \in ObjectIds THEN v ELSE CastError

(***************************************************************************)
(* Schema validators (src/models/User.js).  Each yields the set of         *)
(* <<path, message>> errors of its path, empty when the value passes.      *)
(***************************************************************************)
MaxNameLength == 50
MinAge == 0
MaxAge == 120

\* required: [true, 'Name is required'], maxlength: [50, ...]
validateName(v) ==
    IF v.t # "string" \/ v.s = <<>> THEN {<<"name", "Name is required">>}
    ELSE IF Len(v.s) > MaxNameLength
         THEN {<<"name", "Name cannot exceed 50 characters">>}
         ELSE {}

\* required: [true, 'Email is required'], match: [pattern, ...]
validateEmail(v) ==
    IF v.t # "string" \/ v.s = <<>> THEN {<<"email", "Email is required">>}
    ELSE IF ~MatchesEmail(v.s) THEN {<<"email", "Please enter a valid email">>}
         ELSE {}

\* validateAge without the max validator
validateAgeWithoutMax(v) ==
    IF v.t = "CastError" THEN {<<"age", "Cast to Number failed">>}
    ELSE IF v.t = "number" /\ v.n < MinAge THEN {<<"age", "Age cannot be negative">>}
    ELSE {}

\* min: [0, 'Age cannot be negative'], max: [120, 'Age seems invalid']
validateAge(v) ==
    IF v.t = "CastError" THEN {<<"age", "Cast to Number failed">>}
    ELSE IF v.t = "number" /\ v.n < MinAge THEN {<<"age", "Age cannot be negative">>}
    ELSE IF v.t = "number" /\ v.n > MaxAge THEN {<<"age", "Age seems invalid">>}
    ELSE {}

validateId(v) ==
    IF v.t = "CastError" THEN {<<"_id", "Cast to ObjectId failed">>} ELSE {}

(***************************************************************************)
(* State.                                                                  *)
(***************************************************************************)
VARIABLES
    users,      \* the documents of the users collection
    usedIds,    \* the ObjectIds generated or stored so far
    now,        \* the reading of the clock that stamps createdAt/updatedAt
    last,       \* the request being answered and its response, or none
    inflight,   \* Create requests received and not yet answered
    writes,     \* the number of requests that changed the collection
    connection, \* mongoose.connection: "disconnected", "connecting" (the attempt
                \* of connectDB is pending), "connected", "reconnecting"
    listening,  \* app.listen() was called
    exited      \* process.exit() was called

vars == <<users, usedIds, now, last, inflight, writes, connection, listening, exited>>

\* A request body: every path the handlers read; Undefined when left out.
\* incAge is the operand of {"$inc": {"age": n}}, renameName the operand of
\* {"$rename": {"name": path}}.
Body(id, name, email, age, isActive, createdAt, incAge) ==
    [_id |-> id, name |-> name, email |-> email, age |-> age,
     isActive |-> isActive, createdAt |-> createdAt, incAge |-> incAge,
     renameName |-> Undefined]

Rename(body, path) == [body EXCEPT !.renameName = Path(path)]

EmptyBody == Body(Undefined, Undefined, Undefined, Undefined, Undefined, Undefined, Undefined)

\* The outcome of a storage call: a document, null, or a thrown error.
Found(doc) == [kind |-> "doc", doc |-> doc, name |-> "", code |-> 0, errors |-> {}]
Null == [kind |-> "null", doc |-> Undefined, name |-> "", code |-> 0, errors |-> {}]
Thrown(name, code, errors) ==
    [kind |-> "error", doc |-> Undefined, name |-> name, code |-> code, errors |-> errors]

DuplicateKey == 11000

(***************************************************************************)
(* Documents and update documents, cast and validated by the schema.       *)
(* Casting and validation read the body only.                              *)
(***************************************************************************)
\* isActive: default: true
defaultIsActive(v) == IF v.t = "undefined" THEN Bool(TRUE) ELSE v

\* The paths of new User(body), with the errors that validation reports at
\* save().  An _id left out is generated at save().
newUser(body) ==
    LET id    == IF body._id.t = "undefined" THEN Undefined ELSE castObjectId(body._id)
        name  == castName(body.name)
        email == castEmail(body.email)
        age   == castAge(body.age)
    IN  [_id |-> id, name |-> name, email |-> email, age |-> age,
         isActive |-> defaultIsActive(castIsActive(body.isActive)),
         errors |-> validateId(id) \cup validateName(name)
                      \cup validateEmail(email) \cup validateAge(age)]

\* Update validators (runValidators: true) run on the paths that the body
\* sets; they do not run on $inc.
updateValidators(name, email, age) ==
    (IF name.t = "undefined" THEN {} ELSE validateName(name))
    \cup (IF email.t = "undefined" THEN {} ELSE validateEmail(email))
    \cup (IF age.t = "undefined" THEN {} ELSE validateAge(age))

\* The update that findByIdAndUpdate sends for a body: the paths of the body
\* under $set, cast by the schema; createdAt is immutable and is dropped;
\* the operand of $rename is passed as it is.  A path that cannot be cast
\* throws a CastError.
castUpdate(body) ==
    LET id    == IF body._id.t = "undefined" THEN Undefined ELSE castObjectId(body._id)
        name  == castName(body.name)
        email == castEmail(body.email)
        age   == castAge(body.age)
    IN  [_id |-> id, name |-> name, email |-> email, age |-> age,
         isActive |-> castIsActive(body.isActive), incAge |-> castAge(body.incAge),
         renameName |-> body.renameName,
         castError |-> id.t = "CastError" \/ age.t = "CastError",
         errors |-> updateValidators(name, email, age)]

(***************************************************************************)
(* Storage calls.  Each yields the collection after the call and the       *)
(* outcome handed to the handler.                                          *)
(***************************************************************************)
\* The ObjectId generated for a document whose body carries no _id.
NewObjectId == CHOOSE i \in ObjectIds \ usedIds : \A j \in ObjectIds \ usedIds : i <= j

\* The unique indexes of the collection: _id, and email (unique: true).
violatesUniqueIndex(coll, doc) ==
    \E u \in coll : u._id = doc._id \/ u.email = doc.email

\* user.save(): validation, then the insert; timestamps: true stamps the
\* document.
save(user) ==
    IF user.errors # {}
    THEN [users |-> users, out |-> Thrown("ValidationError", 0, user.errors)]
    ELSE LET doc == [_id |-> IF user._id.t = "undefined" THEN NewObjectId ELSE user._id.n,
                     name |-> user.name, email |-> user.email.s, age |-> user.age,
                     isActive |-> user.isActive.b,
                     createdAt |-> Num(now), updatedAt |-> now]
         IN  IF violatesUniqueIndex(users, doc)
             THEN [users |-> users, out |-> Thrown("MongoServerError", DuplicateKey, {})]
             ELSE [users |-> users \cup {doc}, out |-> Found(doc)]

\* The document that a query hands to the handler: a stored value that
\* cannot be cast to the type of its path is left out.
init(doc) == [doc EXCEPT !.createdAt = IF @.t = "number" THEN @ ELSE Undefined]

\* User.find()
find == [users |-> users, out |-> [kind |-> "docs", docs |-> {init(u) : u \in users}]]

\* User.findById(id)
findById(id) ==
    LET oid == castObjectId(id)
    IN  IF oid.t = "CastError"
        THEN [users |-> users, out |-> Thrown("CastError", 0, {})]
        ELSE IF \E u \in users : u._id = oid.n
        THEN [users |-> users, out |-> Found(init(CHOOSE u \in users : u._id = oid.n))]
        ELSE [users |-> users, out |-> Null]

\* User.findByIdAndDelete(id)
findByIdAndDelete(id) ==
    LET oid == castObjectId(id)
    IN  IF oid.t = "CastError"
        THEN [users |-> users, out |-> Thrown("CastError", 0, {})]
        ELSE IF \E u \in users : u._id = oid.n
        THEN LET u == CHOOSE v \in users : v._id = oid.n
             IN  [users |-> users \ {u}, out |-> Found(init(u))]
        ELSE [users |-> users, out |-> Null]

\* The document after the update is applied: the paths of $set replace the
\* document's, $inc adds to age (a missing age counts as 0), $rename moves
\* the name of a document that has one to the path it names, replacing what
\* is there, and updatedAt is stamped.
applyUpdate(u, update) ==
    LET renamed(path) == update.renameName = Path(path) /\ u.name.t = "string"
    IN  [_id |-> u._id,
         name |-> IF update.name.t = "string" THEN update.name
                  ELSE IF update.renameName.t = "path" THEN Undefined
                  ELSE u.name,
         email |-> IF update.email.t = "string" THEN update.email.s
                   ELSE IF renamed("email") THEN u.name.s
                   ELSE u.email,
         age |-> IF update.incAge.t = "number"
                 THEN Num((IF u.age.t = "number" THEN u.age.n ELSE 0) + update.incAge.n)
                 ELSE IF update.age.t = "number" THEN update.age ELSE u.age,
         isActive |-> IF update.isActive.t = "boolean" THEN update.isActive.b ELSE u.isActive,
         createdAt |-> IF renamed("createdAt") THEN u.name ELSE u.createdAt,
         updatedAt |-> now]

\* Two operators of one update that write the same path.
conflictingUpdate(update) ==
    /\ update.renameName.t = "path"
    /\ \/ update.name.t # "undefined"
       \/ update.renameName = Path("email") /\ update.email.t # "undefined"

\* findByIdAndUpdate that writes the document before the unique index is
\* checked
findByIdAndUpdateWriteFirst(id, update) ==
    LET oid == castObjectId(id)
    IN  IF oid.t = "CastError" \/ update.castError
        THEN [users |-> users, out |-> Thrown("CastError", 0, {})]
        ELSE IF update.errors # {}
        THEN [users |-> users, out |-> Thrown("ValidationError", 0, update.errors)]
        ELSE IF conflictingUpdate(update)
        THEN [users |-> users, out |-> Thrown("MongoServerError", 40, {})]
        ELSE IF ~\E u \in users : u._id = oid.n
        THEN [users |-> users, out |-> Null]
        ELSE LET u == CHOOSE v \in users : v._id = oid.n
                 d == applyUpdate(u, update)
             IN  IF update._id.t = "number" /\ update._id.n # u._id
                 THEN [users |-> users, out |-> Thrown("MongoServerError", 66, {})]
                 ELSE IF violatesUniqueIndex(users \ {u}, d)
                 THEN [users |-> (users \ {u}) \cup {d},
                       out |-> Thrown("MongoServerError", DuplicateKey, {})]
                 ELSE [users |-> (users \ {u}) \cup {d}, out |-> Found(init(d))]

\* User.findByIdAndUpdate(id, body, {new: true, runValidators: true}): the
\* filter is cast, then the update, then the update validators run, then the
\* storage engine parses the update (error 40 for conflicting operators),
\* finds and updates the document (error 66 for a change of _id, 11000 for
\* a duplicate key) and returns it as updated.
findByIdAndUpdate(id, update) ==
    LET oid == castObjectId(id)
    IN  IF oid.t = "CastError" \/ update.castError
        THEN [users |-> users, out |-> Thrown("CastError", 0, {})]
        ELSE IF update.errors # {}
        THEN [users |-> users, out |-> Thrown("ValidationError", 0, update.errors)]
        ELSE IF conflictingUpdate(update)
        THEN [users |-> users, out |-> Thrown("MongoServerError", 40, {})]
        ELSE IF ~\E u \in users : u._id = oid.n
        THEN [users |-> users, out |-> Null]
        ELSE LET u == CHOOSE v \in users : v._id = oid.n
                 d == applyUpdate(u, update)
             IN  IF update._id.t = "number" /\ update._id.n # u._id
                 THEN [users |-> users, out |-> Thrown("MongoServerError", 66, {})]
                 ELSE IF violatesUniqueIndex(users \ {u}, d)
                 THEN [users |-> users, out |-> Thrown("MongoServerError", DuplicateKey, {})]
                 ELSE [users |-> (users \ {u}) \cup {d}, out |-> Found(init(d))]

(***************************************************************************)
(* Responses (src/controllers/userController.js).  res.json() without      *)
(* res.status() answers 200.                                               *)
(***************************************************************************)
\* The keys of a response body; a key that the handler does not send is "",
\* {} or Undefined.  No handler of the controller sends details.
Response(status, success, error, errors, data, message) ==
    [status |-> status, success |-> success, error |-> error, errors |-> errors,
     data |-> data, message |-> message, details |-> Undefined]

Failure(status, error) == Response(status, FALSE, error, {}, Undefined, "")

\* errors: Object.values(error.errors).map(err => err.message)
messages(errors) == {e[2] : e \in errors}

\* count: users.length is sent with the list only
getUsersResponse(out) ==
    IF out.kind = "docs"
    THEN [status |-> 200, success |-> TRUE, error |-> "", errors |-> {},
          data |-> out.docs, message |-> "", details |-> Undefined,
          count |-> Cardinality(out.docs)]
    ELSE [status |-> 500, success |-> FALSE, error |-> "Failed to fetch users", errors |-> {},
          data |-> Undefined, message |-> "", details |-> Undefined,
          count |-> Undefined]

getUserByIdResponse(out) ==
    IF out.kind = "null" THEN Failure(404, "User not found")
    ELSE IF out.kind = "doc" THEN Response(200, TRUE, "", {}, out.doc, "")
    ELSE IF out.name = "CastError" THEN Failure(400, "Invalid user ID format")
    ELSE Failure(500, "Failed to fetch user")

createUserResponse(out) ==
    IF out.kind = "doc" THEN Response(201, TRUE, "", {}, out.doc, "")
    ELSE IF out.name = "ValidationError"
    THEN Response(400, FALSE, "", messages(out.errors), Undefined, "")
    ELSE IF out.code = DuplicateKey THEN Failure(400, "Email already exists")
    ELSE Failure(500, "Failed to create user")

\* updateUserResponse with the duplicate-key branch of createUser
updateUserResponseWithDuplicateBranch(out) ==
    IF out.kind = "null" THEN Failure(404, "User not found")
    ELSE IF out.kind = "doc" THEN Response(200, TRUE, "", {}, out.doc, "")
    ELSE IF out.name = "CastError" THEN Failure(400, "Invalid user ID format")
    ELSE IF out.name = "ValidationError"
    THEN Response(400, FALSE, "", messages(out.errors), Undefined, "")
    ELSE IF out.code = DuplicateKey THEN Failure(400, "Email already exists")
    ELSE Failure(500, "Failed to update user")

updateUserResponse(out) ==
    IF out.kind = "null" THEN Failure(404, "User not found")
    ELSE IF out.kind = "doc" THEN Response(200, TRUE, "", {}, out.doc, "")
    ELSE IF out.name = "CastError" THEN Failure(400, "Invalid user ID format")
    ELSE IF out.name = "ValidationError"
    THEN Response(400, FALSE, "", messages(out.errors), Undefined, "")
    ELSE Failure(500, "Failed to update user")

deleteUserResponse(out) ==
    IF out.kind = "null" THEN Failure(404, "User not found")
    ELSE IF out.kind = "doc"
    THEN Response(200, TRUE, "", {}, Undefined, "User deleted successfully")
    ELSE IF out.name = "CastError" THEN Failure(400, "Invalid user ID format")
    ELSE Failure(500, "Failed to delete user")

(***************************************************************************)
(* Request inputs.                                                         *)
(***************************************************************************)
NameAl == <<"A","l">>
NameBo == <<"B","o">>
BlankName == <<" "," ">>
\* one character more than maxlength
LongName == [i \in 1..(MaxNameLength + 1) |-> "x"]

EmailA == <<"a","@","b",".","c","o">>
\* EmailA in another case and between blanks
EmailAVariant == <<" ","A","@","B",".","c","o"," ">>
EmailC == <<"c","@","b",".","c","o">>
\* a top-level segment of one character
ShortTldEmail == <<"a","@","b",".","c">>
NoAtEmail == <<"n","o","-","a","t">>
\* a name that reads as EmailA in another case
NameLikeEmailA == <<"A","@","b",".","c","o">>

NotANumber == Str(<<"a","b","c">>)
NotAnObjectId == Str(<<"x","y","z">>)
IdInputs == {Num(i) : i \in ObjectIds} \cup {NotAnObjectId}

\* Bodies that pass validation.
ValidCreateBodies ==
    {Body(i, Str(<<" ">> \o NameAl \o <<" ">>), Str(e), Undefined, Undefined, Undefined, Undefined) :
        i \in {Undefined, Num(1)}, e \in {EmailAVariant, EmailC}}
    \cup {Body(Undefined, Str(<<" ">> \o NameAl \o <<" ">>), Str(EmailC), Num(MaxAge), Bool(FALSE),
               Undefined, Undefined),
          Body(Undefined, Str(NameBo), Str(EmailA), Undefined, Bool(TRUE), Undefined, Undefined),
          Body(Undefined, Str(NameLikeEmailA), Str(EmailC), Undefined, Undefined, Undefined, Undefined)}

\* Bodies with one path or more that fails validation.
InvalidCreateBodies ==
    {Body(Undefined, n, Str(EmailC), Undefined, Undefined, Undefined, Undefined) :
        n \in {Undefined, Str(BlankName), Str(LongName)}}
    \cup {Body(Undefined, Str(NameAl), e, Undefined, Undefined, Undefined, Undefined) :
        e \in {Undefined, Str(ShortTldEmail), Str(NoAtEmail)}}
    \cup {Body(Undefined, Str(NameAl), Str(EmailC), a, Undefined, Undefined, Undefined) :
        a \in {Num(MinAge - 1), Num(MaxAge + 1), NotANumber}}
    \cup {Body(NotAnObjectId, Str(NameAl), Str(EmailC), Undefined, Undefined, Undefined, Undefined),
          Body(Undefined, Undefined, Str(EmailA), Num(MaxAge + 1), Undefined, Undefined, Undefined),
          EmptyBody}

CreateBodies == ValidCreateBodies \cup InvalidCreateBodies

\* Partial bodies of one path.
OnePathUpdateBodies ==
    {Body(Undefined, n, Undefined, Undefined, Undefined, Undefined, Undefined) :
        n \in {Str(<<" ">> \o NameBo \o <<" ">>), Str(BlankName)}}
    \cup {Body(Undefined, Undefined, e, Undefined, Undefined, Undefined, Undefined) :
        e \in {Str(EmailAVariant), Str(EmailC), Str(NoAtEmail)}}
    \cup {Body(Undefined, Undefined, Undefined, a, Undefined, Undefined, Undefined) :
        a \in {Num(MaxAge), Num(MaxAge + 1), NotANumber}}
    \cup {Body(Undefined, Undefined, Undefined, Undefined, v, Undefined, Undefined) :
        v \in {Bool(FALSE)}}
    \cup {Body(Undefined, Undefined, Undefined, Undefined, Undefined, Num(MaxClock + 1), Undefined),
          Body(Num(1), Undefined, Undefined, Undefined, Undefined, Undefined, Undefined),
          Body(Undefined, Undefined, Undefined, Undefined, Undefined, Undefined, Num(MaxAge)),
          Rename(EmptyBody, "email"),
          Rename(EmptyBody, "createdAt"),
          EmptyBody}

\* Partial bodies of several paths: all valid, and one valid with one not.
ManyPathUpdateBodies ==
    {Body(Undefined, Str(NameBo), Str(EmailC), Num(MaxAge), Bool(FALSE), Undefined, Undefined),
     Body(Undefined, Str(NameBo), Str(NoAtEmail), Undefined, Undefined, Undefined, Undefined),
     Body(Undefined, Str(LongName), Undefined, Num(MinAge - 1), Bool(FALSE), Undefined, Undefined),
     Rename(Body(Undefined, Str(NameAl), Undefined, Undefined, Undefined, Undefined, Undefined),
            "email")}

UpdateBodies == OnePathUpdateBodies \cup ManyPathUpdateBodies

Request(op, id, body) == [op |-> op, id |-> id, body |-> body]

\* The bodies with the documents and updates cast from them.
CreateRequests == {[body |-> b, user |-> newUser(b)] : b \in CreateBodies}
UpdateRequests == {[body |-> b, update |-> castUpdate(b)] : b \in UpdateBodies}

(***************************************************************************)
(* The handlers.  Each performs one storage call, which the storage        *)
(* engine applies atomically, and answers from its outcome.                *)
(***************************************************************************)
\* What a handler has seen of its storage calls: how many it made, and the
\* kind of the outcome with the name and code of a thrown error.
Seen(calls, out) ==
    [calls |-> calls, kind |-> out.kind,
     name |-> IF out.kind = "error" THEN out.name ELSE "",
     code |-> IF out.kind = "error" THEN out.code ELSE 0]

NoRequest ==
    [req |-> Request("none", Undefined, EmptyBody), out |-> Seen(0, Null),
     res |-> Failure(0, "")]

Idle == last = NoRequest

\* The server accepts requests.
Serving == listening /\ ~exited

\* The outcome of a storage call r.  An error of casting or validation is
\* thrown before anything is sent to the store; while the connection is not
\* up the call is buffered and fails when the buffering times out.
Outcome(r) ==
    IF r.out.kind = "error" /\ r.out.name \in {"CastError", "ValidationError"} THEN r
    ELSE IF connection = "connected" THEN r
    ELSE [users |-> users, out |-> Thrown("MongooseError", 0, {})]

\* The collection after a request: a request that changes it is counted.
Written(coll) ==
    /\ coll # users => writes < MaxWrites
    /\ writes' = IF coll # users THEN writes + 1 ELSE writes

Init ==
    /\ users = {}
    /\ usedIds = {}
    /\ now = 0
    /\ last = NoRequest
    /\ inflight = {}
    /\ writes = 0
    /\ connection = "connected"
    /\ listening = TRUE
    /\ exited = FALSE

getUsers ==
    /\ Idle /\ Serving
    /\ LET r == Outcome(find)
       IN  /\ users' = r.users
           /\ last' = [req |-> Request("getUsers", Undefined, EmptyBody),
                       out |-> Seen(1, r.out),
                       res |-> getUsersResponse(r.out)]
    /\ UNCHANGED <<usedIds, now, inflight, writes, connection, listening, exited>>

getUserById ==
    /\ Idle /\ Serving
    /\ \E id \in IdInputs :
        LET r == Outcome(findById(id))
        IN  /\ users' = r.users
            /\ last' = [req |-> Request("getUserById", id, EmptyBody),
                        out |-> Seen(1, r.out),
                        res |-> getUserByIdResponse(r.out)]
    /\ UNCHANGED <<usedIds, now, inflight, writes, connection, listening, exited>>

createUser ==
    /\ Idle /\ Serving
    /\ \E rq \in CreateRequests :
        /\ rq.body._id.t = "undefined" => ObjectIds \ usedIds # {}
        /\ LET r == Outcome(save(rq.user))
           IN  /\ Written(r.users)
               /\ users' = r.users
               /\ usedIds' = usedIds \cup {u._id : u \in r.users}
               /\ last' = [req |-> Request("createUser", Undefined, rq.body),
                           out |-> Seen(1, r.out),
                           res |-> createUserResponse(r.out)]
    /\ UNCHANGED <<now, inflight, connection, listening, exited>>

updateUser ==
    /\ Idle /\ Serving
    /\ \E id \in IdInputs, rq \in UpdateRequests :
        LET r == Outcome(findByIdAndUpdate(id, rq.update))
        IN  /\ Written(r.users)
            /\ users' = r.users
            /\ last' = [req |-> Request("updateUser", id, rq.body),
                        out |-> Seen(1, r.out),
                        res |-> updateUserResponse(r.out)]
    /\ UNCHANGED <<usedIds, now, inflight, connection, listening, exited>>

deleteUser ==
    /\ Idle /\ Serving
    /\ \E id \in IdInputs :
        LET r == Outcome(findByIdAndDelete(id))
        IN  /\ Written(r.users)
            /\ users' = r.users
            /\ last' = [req |-> Request("deleteUser", id, EmptyBody),
                        out |-> Seen(1, r.out),
                        res |-> deleteUserResponse(r.out)]
    /\ UNCHANGED <<usedIds, now, inflight, connection, listening, exited>>

\* The response has been sent; the next request is taken.
Respond ==
    /\ ~Idle
    /\ last' = NoRequest
    /\ UNCHANGED <<users, usedIds, now, inflight, writes, connection, listening, exited>>

\* Time passes.
Tick ==
    /\ Idle
    /\ now < MaxClock
    /\ now' = now + 1
    /\ UNCHANGED <<users, usedIds, last, inflight, writes, connection, listening, exited>>

Next ==
    \/ getUsers \/ getUserById \/ createUser \/ updateUser \/ deleteUser
    \/ Respond \/ Tick

Spec == Init /\ [][Next]_vars

(***************************************************************************)
(* Concurrent Creates.  A Create is received, its storage call is applied  *)
(* at some later moment, in any order with the storage calls of the other  *)
(* Creates in flight, and its response is kept until every Create in       *)
(* flight has been answered.                                               *)
(***************************************************************************)
Pending == Failure(0, "")

\* A Create request arrives.  fresh records whether any stored document had
\* its email at that moment.
receiveCreate ==
    /\ Cardinality(inflight) < MaxInflight
    /\ \E rq \in CreateRequests :
        LET slot == CHOOSE n \in 1..MaxInflight : \A r \in inflight : r.slot # n
        IN  inflight' = inflight \cup
                {[slot |-> slot, body |-> rq.body, user |-> rq.user, res |-> Pending,
                  fresh |-> \A u \in users : Str(u.email) # rq.user.email]}
    /\ UNCHANGED <<users, usedIds, now, last, writes, connection, listening, exited>>

\* createUser, for a request in flight.
answerCreate ==
    /\ \E r \in inflight :
        /\ r.res = Pending
        /\ r.body._id.t = "undefined" => ObjectIds \ usedIds # {}
        /\ LET s == save(r.user)
           IN  /\ users' = s.users
               /\ usedIds' = usedIds \cup {u._id : u \in s.users}
               /\ inflight' = (inflight \ {r})
                     \cup {[r EXCEPT !.res = createUserResponse(s.out)]}
    /\ UNCHANGED <<now, last, writes, connection, listening, exited>>

\* Every request in flight has been answered.
drain ==
    /\ inflight # {}
    /\ \A r \in inflight : r.res # Pending
    /\ inflight' = {}
    /\ UNCHANGED <<users, usedIds, now, last, writes, connection, listening, exited>>

NextRace == receiveCreate \/ answerCreate \/ drain

SpecRace == Init /\ [][NextRace]_vars

(***************************************************************************)
(* The process (src/app.js).  The module runs from top to bottom:          *)
(* connectDB() is called and returns at its await, the routes are mounted  *)
(* and app.listen() is called; the attempt to connect settles in a later   *)
(* turn of the event loop.  A connection that was up may be lost and is    *)
(* then reopened by the driver.                                            *)
(***************************************************************************)
InitProcess ==
    /\ users = {}
    /\ usedIds = {}
    /\ now = 0
    /\ last = NoRequest
    /\ inflight = {}
    /\ writes = 0
    /\ connection = "disconnected"
    /\ listening = FALSE
    /\ exited = FALSE

\* connectDB(): mongoose.connect(process.env.MONGO_URI) is awaited
connectDB ==
    /\ connection = "disconnected" /\ ~listening /\ ~exited
    /\ connection' = "connecting"
    /\ UNCHANGED <<users, usedIds, now, last, inflight, writes, listening, exited>>

\* app.listen(PORT)
listen ==
    /\ connection = "connecting" /\ ~listening /\ ~exited
    /\ listening' = TRUE
    /\ UNCHANGED <<users, usedIds, now, last, inflight, writes, connection, exited>>

\* the await of connectDB resolves, between two requests
connectResolved ==
    /\ Idle
    /\ connection = "connecting" /\ listening /\ ~exited
    /\ connection' = "connected"
    /\ UNCHANGED <<users, usedIds, now, last, inflight, writes, listening, exited>>

\* the await of connectDB rejects, between two requests: catch,
\* process.exit(1)
connectRejected ==
    /\ Idle
    /\ connection = "connecting" /\ listening /\ ~exited
    /\ connection' = "disconnected"
    /\ exited' = TRUE
    /\ UNCHANGED <<users, usedIds, now, last, inflight, writes, listening>>

\* the connection drops, between two requests
connectionLost ==
    /\ Idle
    /\ connection = "connected" /\ ~exited
    /\ connection' = "reconnecting"
    /\ UNCHANGED <<users, usedIds, now, last, inflight, writes, listening, exited>>

\* the driver has reopened the connection
reconnected ==
    /\ Idle
    /\ connection = "reconnecting" /\ ~exited
    /\ connection' = "connected"
    /\ UNCHANGED <<users, usedIds, now, last, inflight, writes, listening, exited>>

\* app.get('/'): the welcome document, no storage call
getRoot ==
    /\ Idle /\ Serving
    /\ last' = [req |-> Request("getRoot", Undefined, EmptyBody),
                out |-> Seen(0, Null),
                res |-> Response(200, Undefined, "", {}, Undefined,
                                 "Welcome to MongoDB CRUD API")]
    /\ UNCHANGED <<users, usedIds, now, inflight, writes, connection, listening, exited>>

NextProcess ==
    \/ connectDB \/ listen \/ connectResolved \/ connectRejected
    \/ connectionLost \/ reconnected
    \/ getRoot
    \/ Next

SpecProcess == InitProcess /\ [][NextProcess]_vars

(***************************************************************************)
(* Vocabulary of the properties.                                           *)
(***************************************************************************)
\* A step in which the handler op takes a request; last' is the request and
\* its response, users and users' the collection before and after.
Handles(op) == Idle /\ last'.req.op = op

\* The rules of the data model, stated on a raw value of a body.
NormalizedEmail(s) == toLowerCase(trim(s))
NameRule(v) == v.t = "string" /\ trim(v.s) # <<>> /\ Len(trim(v.s)) <= 50
EmailRule(v) == v.t = "string" /\ MatchesEmail(NormalizedEmail(v.s))
AgeRule(v) == v.t = "undefined" \/ (v.t = "number" /\ 0 <= v.n /\ v.n <= 120)
IdRule(v) == v.t = "undefined" \/ (v.t = "number" /\ v.n \in ObjectIds)
IsActiveRule(v) == v.t \in {"undefined", "boolean"}

\* A Create payload that meets every rule.
ValidPayload(body) ==
    /\ NameRule(body.name) /\ EmailRule(body.email) /\ AgeRule(body.age)
    /\ IdRule(body._id) /\ IsActiveRule(body.isActive)

\* The rules, stated on a stored document.
ValidDocument(u) ==
    /\ u.name.t = "string"
    /\ u.name.s # <<>> /\ trim(u.name.s) = u.name.s /\ Len(u.name.s) <= 50
    /\ MatchesEmail(u.email)
    /\ u.age.t = "number" => (0 <= u.age.n /\ u.age.n <= 120)

StoredIds == {u._id : u \in users}

\* The paths of a document that a response shows are those of doc.
Shows(data, doc) ==
    /\ data._id = doc._id /\ data.name = doc.name /\ data.email = doc.email
    /\ data.age = doc.age /\ data.isActive = doc.isActive

(***************************************************************************)
(* C1: no two stored documents have the same email, comparing emails       *)
(* trimmed and lowercased, whatever Creates, Updates and Deletes were      *)
(* handled.                                                                *)
(***************************************************************************)
EmailsUnique ==
    \A u, v \in users :
        u # v => NormalizedEmail(u.email) # NormalizedEmail(v.email)

(***************************************************************************)
(* C3: every stored document has a non-empty trimmed name of at most 50    *)
(* characters, an email that matches the pattern and, when it has an age,  *)
(* an age between 0 and 120.                                               *)
(***************************************************************************)
StoredDocumentsValid == \A u \in users : ValidDocument(u)

(***************************************************************************)
(* C4: a Create whose payload lacks name or email, or has an age outside   *)
(* [0,120], or a malformed email, is answered 400 as a validation failure  *)
(* and leaves the collection as it was.                                    *)
(***************************************************************************)
ViolatesCreateRules(body) ==
    \/ body.name.t = "undefined"
    \/ body.email.t = "undefined"
    \/ body.age.t = "number" /\ (body.age.n < 0 \/ body.age.n > 120)
    \/ body.email.t = "string" /\ ~MatchesEmail(NormalizedEmail(body.email.s))

InvalidCreateRejected ==
    [][(Handles("createUser") /\ ViolatesCreateRules(last'.req.body))
        => /\ last'.res.status = 400
           /\ ~last'.res.success
           /\ last'.res.errors # {}
           /\ users' = users]_vars

\* A Create with an age above 120 was answered 400 while a document is
\* stored.
InvalidCreateRejectedWitness ==
    /\ last.req.op = "createUser"
    /\ last.req.body.age = Num(121)
    /\ last.res.status = 400
    /\ users # {}

(***************************************************************************)
(* C5: a Create with a valid payload whose email no stored document has is *)
(* answered 201 and stores exactly one new document, with the trimmed and  *)
(* lowercased email, the trimmed name, and isActive as supplied, or true   *)
(* when the payload leaves it out.                                         *)
(***************************************************************************)
ValidCreateStored ==
    [][(/\ Handles("createUser")
        /\ ValidPayload(last'.req.body)
        /\ \A u \in users :
              NormalizedEmail(u.email) # NormalizedEmail(last'.req.body.email.s))
        => LET body == last'.req.body
           IN  /\ last'.res.status = 201
               /\ \E d \in users' :
                     /\ d \notin users
                     /\ users' = users \cup {d}
                     /\ d.email = NormalizedEmail(body.email.s)
                     /\ d.name = Str(trim(body.name.s))
                     /\ d.isActive = (IF body.isActive.t = "undefined" THEN TRUE
                                      ELSE body.isActive.b)]_vars

(***************************************************************************)
(* C6: while a document with email e is stored, a Create with a valid      *)
(* payload whose email is e up to letter case and surrounding whitespace   *)
(* is answered 400 'Email already exists' and stores nothing.              *)
(***************************************************************************)
DuplicateEmailRejected ==
    [][(/\ Handles("createUser")
        /\ ValidPayload(last'.req.body)
        /\ \E u \in users :
              NormalizedEmail(u.email) = NormalizedEmail(last'.req.body.email.s))
        => /\ last'.res = Failure(400, "Email already exists")
           /\ users' = users]_vars

(***************************************************************************)
(* C7: Get by id answers 200 with the stored document of that id, 400      *)
(* 'Invalid user ID format' for an identifier that is no ObjectId, and 404 *)
(* 'User not found' for an ObjectId that no stored document has; Update    *)
(* and Delete answer the same 400 and 404 in the latter two cases.         *)
(***************************************************************************)
IsObjectId(id) == id.t = "number" /\ id.n \in ObjectIds

IdentifierOutcomes ==
    [][(Idle /\ last'.req.op \in {"getUserById", "updateUser", "deleteUser"})
        => LET id  == last'.req.id
               res == last'.res
           IN  /\ ~IsObjectId(id) => res = Failure(400, "Invalid user ID format")
               /\ (IsObjectId(id) /\ id.n \notin StoredIds)
                     => res = Failure(404, "User not found")
               /\ (last'.req.op = "getUserById" /\ IsObjectId(id) /\ id.n \in StoredIds)
                     => /\ res.status = 200
                        /\ \E u \in users : u._id = id.n /\ Shows(res.data, u)]_vars

(***************************************************************************)
(* C8: a Delete answered 200 removes the document of that id and no other, *)
(* and the id is never stored again, so that every later Get, Update or    *)
(* Delete of it finds nothing.                                             *)
(***************************************************************************)
DeletedIdStaysAbsent ==
    [][/\ (Handles("deleteUser") /\ last'.res.status = 200)
            => \E u \in users : u._id = last'.req.id.n /\ users' = users \ {u}
       /\ \A i \in usedIds \ StoredIds : \A u \in users' : u._id # i]_vars

(***************************************************************************)
(* C9: an Update answered 200 changes, of name, email, age and isActive,   *)
(* only the paths its payload names (as a path to set or in an operator),  *)
(* an email or a name that it changes to a normalized value; it leaves     *)
(* every other document as it was and answers with the document as         *)
(* updated.                                                                *)
(***************************************************************************)
UpdateChangesNamedPaths ==
    [][(Handles("updateUser") /\ last'.res.status = 200)
        => LET body == last'.req.body
           IN  \E u \in users : \E d \in users' :
                  /\ u._id = last'.req.id.n
                  /\ d._id = u._id
                  /\ users' \ {d} = users \ {u}
                  /\ Shows(last'.res.data, d)
                  /\ body.name.t = "string" => d.name = Str(trim(body.name.s))
                  /\ (body.name.t = "undefined" /\ body.renameName.t = "undefined")
                        => d.name = u.name
                  /\ body.email.t = "string" => d.email = NormalizedEmail(body.email.s)
                  /\ (body.email.t = "undefined" /\ body.renameName # Path("email"))
                        => d.email = u.email
                  /\ d.email # u.email => d.email = NormalizedEmail(d.email)
                  /\ d.isActive = (IF body.isActive.t = "undefined" THEN u.isActive
                                   ELSE body.isActive.b)
                  /\ body.age.t = "number" => d.age = body.age
                  /\ (body.age.t = "undefined" /\ body.incAge.t = "undefined")
                        => d.age = u.age]_vars

(***************************************************************************)
(* C10: no Update changes the _id or createdAt of a document, and every    *)
(* Update answered 200 leaves updatedAt strictly greater than it was.      *)
(***************************************************************************)
UpdatedAtStrictlyGreater ==
    [][Handles("updateUser")
        => \A u \in users :
              \E d \in users' :
                 /\ d._id = u._id
                 /\ d.createdAt = u.createdAt
                 /\ (last'.res.status = 200 /\ u._id = last'.req.id.n)
                       => d.updatedAt > u.updatedAt]_vars

(***************************************************************************)
(* C2: of two or more Creates in flight together with valid payloads and   *)
(* the same normalized email, which no document had when they arrived,     *)
(* exactly one is answered 201 and stores a document; every other one      *)
(* fails and stores nothing.                                               *)
(***************************************************************************)
RacingCreates(e) ==
    {r \in inflight :
        /\ r.fresh
        /\ ValidPayload(r.body)
        /\ NormalizedEmail(r.body.email.s) = e}

ExactlyOneCreateSucceeds ==
    \A q \in inflight :
        q.body.email.t = "string" =>
            LET e == NormalizedEmail(q.body.email.s)
                G == RacingCreates(e)
            IN  (Cardinality(G) >= 2 /\ \A r \in G : r.res # Pending)
                    => /\ Cardinality({r \in G : r.res.status = 201}) = 1
                       /\ \A r \in G : r.res.status # 201 => ~r.res.success
                       /\ Cardinality({u \in users : u.email = e}) = 1

(***************************************************************************)
(* C11: a Create or an Update that fails validation is answered 400 with   *)
(* success false, error 'Validation failed' and details holding exactly    *)
(* one {field, message} entry per path that fails; every other failure is  *)
(* answered with success false and an error description only.              *)
(***************************************************************************)
\* The <<path, message>> errors that validation reports for the request.
ValidationErrorsOf(req) ==
    IF req.op = "createUser" THEN newUser(req.body).errors
    ELSE IF req.op = "updateUser" /\ IsObjectId(req.id) /\ ~castUpdate(req.body).castError
    THEN castUpdate(req.body).errors
    ELSE {}

ValidationFailureShape ==
    [][Idle /\ last'.req.op # "none"
        => LET res  == last'.res
               errs == ValidationErrorsOf(last'.req)
           IN  /\ errs # {}
                    => /\ res.status = 400
                       /\ ~res.success
                       /\ res.error = "Validation failed"
                       /\ res.details = {[field |-> e[1], message |-> e[2]] : e \in errs}
               /\ (errs = {} /\ res.status \in {400, 404, 500})
                    => /\ ~res.success
                       /\ res.error # ""
                       /\ res.errors = {}
                       /\ res.details = Undefined]_vars

(***************************************************************************)
(* C12: when the connection to the store cannot be established at startup  *)
(* the process exits, and no request is handled before the attempt to      *)
(* connect has succeeded.                                                  *)
(***************************************************************************)
Established == connection \in {"connected", "reconnecting"}

NoRequestBeforeConnected ==
    [][/\ (Idle /\ last'.req.op # "none") => Established
       /\ (connection = "connecting" /\ connection' = "disconnected") => exited']_vars

(***************************************************************************)
(* C13: each of the five handlers makes exactly one storage call and       *)
(* answers whatever its outcome is, with a status among 200, 201, 400,     *)
(* 404, 500, 201 from Create only, and 500 for every thrown error that is  *)
(* neither a ValidationError nor a CastError nor a duplicate key of        *)
(* Create.  (A CastError is the store's malformed-identifier error; one    *)
(* thrown for a path of the payload is a failure of that field.)           *)
(***************************************************************************)
ControllerOps == {"getUsers", "getUserById", "createUser", "updateUser", "deleteUser"}

EveryOutcomeAnswered ==
    [][(Idle /\ last'.req.op \in ControllerOps)
        => LET op  == last'.req.op
               out == last'.out
               res == last'.res
           IN  /\ out.calls = 1
               /\ res.status \in {200, 201, 400, 404, 500}
               /\ res.status = 201 => op = "createUser"
               /\ out.kind # "error" => res.status \in {200, 201, 404}
               /\ (/\ out.kind = "error"
                   /\ out.name \notin {"ValidationError", "CastError"}
                   /\ ~(op = "createUser" /\ out.code = 11000))
                     => res.status = 500 /\ ~res.success]_vars

\* An Update refused by the unique index of email was answered 500.
EveryOutcomeAnsweredWitness ==
    /\ last.req.op = "updateUser"
    /\ last.out.kind = "error" /\ last.out.code = 11000
    /\ last.res = Failure(500, "Failed to update user")
    /\ Cardinality(users) = 2

EmailExistsOnlyForStoredEmail ==
    [][(Handles("createUser") /\ last'.res = Failure(400, "Email already exists"))
        => /\ last'.req.body.email.t = "string"
           /\ \E u \in users :
                 NormalizedEmail(u.email) = NormalizedEmail(last'.req.body.email.s)]_vars

====
